---- MODULE Spec2Model ----
(***************************************************************************)
(* Auto-reply polling and decision loop of the Instagram DM automation     *)
(* backend (backend/auto_reply.py) together with the parts of the gateway   *)
(* wrapper (backend/utils/instagram_client.py), the response generator      *)
(* (backend/utils/groq_client.py) and the template store                    *)
(* (backend/database.py) that the loop calls.                               *)
(*                                                                         *)
(* Scheduling.  Everything runs on one asyncio event loop.  A coroutine     *)
(* gives the thread back only when it awaits something that is not ready.   *)
(* The only such place in AutoReplyManager.start is asyncio.sleep           *)
(* (auto_reply.py:26,29): check_new_messages, send_auto_reply,              *)
(* analyze_message_intent and generate_dm_response are "async def" bodies   *)
(* without any await (they call the blocking SDKs and time.sleep), so       *)
(* awaiting them never yields.  A tick therefore runs from the while test   *)
(* to the sleep without any other task running; the variable cur is the     *)
(* task that holds the thread (0 = every task is suspended).  The tick is   *)
(* still split into steps so that each gateway call is a visible state;    *)
(* wall-clock time passes inside the blocking calls.                        *)
(***************************************************************************)
EXTENDS Integers, Sequences, FiniteSets, TLC

(***************************************************************************)
(* Program constants and bounds                                            *)
(***************************************************************************)
AUTO_REPLY_CHECK_INTERVAL == 60
DM_DELAY_SECONDS == 30
MAX_RETRIES == 3

MaxTime == 70
MaxRecipients == 2
MaxCampaigns == 2
MaxTemplates == 3
MaxTextLen == 2
MaxOperandLen == 1

Accounts == {"acctA", "acctB"}
ClockSteps == {30, AUTO_REPLY_CHECK_INTERVAL}
PollLatencies == {0, 30}

(***************************************************************************)
(* Strings are sequences of characters.  None is Python's None where a      *)
(* string is expected; NoneId is None where a template id is expected.      *)
(***************************************************************************)
Alphabet == {"a", "A", "?"}
None == <<"None">>
NoneId == "None"

RECURSIVE StringsUpTo(_)
StringsUpTo(n) ==
  IF n = 0 THEN {<<>>}
  ELSE LET shorter == StringsUpTo(n - 1)
       IN shorter \cup {Append(s, c) : s \in {t \in shorter : Len(t) = n - 1}, c \in Alphabet}

LowerChar(c) == IF c = "A" THEN "a" ELSE c
lower(s) == [i \in 1..Len(s) |-> LowerChar(s[i])]

RECURSIVE find(_, _, _)
find(s, x, i) ==
  IF i + Len(x) - 1 > Len(s) THEN -1
  ELSE IF SubSeq(s, i, i + Len(x) - 1) = x THEN i
  ELSE find(s, x, i + 1)

str_in(x, s) == find(s, x, 1) # -1
startswith(s, x) == Len(x) <= Len(s) /\ SubSeq(s, 1, Len(x)) = x
endswith(s, x) == Len(x) <= Len(s) /\ SubSeq(s, Len(s) - Len(x) + 1, Len(s)) = x

(***************************************************************************)
(* Outcome of a Python call: a returned value or a raised exception.        *)
(***************************************************************************)
Ret(v) == [exc |-> FALSE, val |-> v]
Raise == [exc |-> TRUE, val |-> FALSE]

(***************************************************************************)
(* AutoReplyConfig and the condition mapping                               *)
(***************************************************************************)
RecognizedKinds == {"contains", "starts_with", "ends_with"}
ConditionKinds == RecognizedKinds \cup {"regex"}

AutoReplyConfig(enabled, tid, conds) ==
  [is_enabled |-> enabled, template_id |-> tid, conditions |-> conds]

(* one condition of the loop body, auto_reply.py:100-108: TRUE = "return False" *)
condition_fails(condition_type, condition_value, message_text) ==
  IF condition_type = "contains" THEN ~str_in(lower(condition_value), message_text)
  ELSE IF condition_type = "starts_with" THEN ~startswith(message_text, lower(condition_value))
  ELSE IF condition_type = "ends_with" THEN ~endswith(message_text, lower(condition_value))
  ELSE FALSE

RECURSIVE check_conditions(_, _, _)
check_conditions(conditions, todo, message_text) ==
  IF todo = {} THEN TRUE
  ELSE LET condition_type == CHOOSE k \in todo : TRUE
       IN IF condition_fails(condition_type, conditions[condition_type], message_text)
          THEN FALSE
          ELSE check_conditions(conditions, todo \ {condition_type}, message_text)

(* the try block, auto_reply.py:96-110; None.lower() raises AttributeError *)
should_reply_try(message, config) ==
  IF message.text = None THEN Raise
  ELSE Ret(check_conditions(config.conditions, DOMAIN config.conditions, lower(message.text)))

should_reply_noexcept(message, config) == should_reply_try(message, config)

_should_reply(message, config) ==
  LET r == should_reply_try(message, config)
  IN IF r.exc THEN Ret(FALSE) ELSE r

(***************************************************************************)
(* Python dicts keep insertion order: a dict is a sequence of items with    *)
(* pairwise distinct keys.                                                  *)
(***************************************************************************)
Keys(d) == {d[i].username : i \in 1..Len(d)}
HasKey(d, k) == \E i \in 1..Len(d) : d[i].username = k
Lookup(d, k) == d[CHOOSE i \in 1..Len(d) : d[i].username = k].config
dict_set(d, k, v) ==
  IF HasKey(d, k)
  THEN [i \in 1..Len(d) |-> IF d[i].username = k THEN [username |-> k, config |-> v] ELSE d[i]]
  ELSE Append(d, [username |-> k, config |-> v])
dict_pop(d, k) == SelectSeq(d, LAMBDA item : item.username # k)

(* AutoReplyManager.update_config as a function of the mapping *)
update_config_nopop(configs, u, cfg) ==
  IF cfg.is_enabled THEN dict_set(configs, u, cfg) ELSE configs

update_config_merge(configs, u, cfg) ==
  IF cfg.is_enabled
  THEN IF HasKey(configs, u)
       THEN dict_set(configs, u, [Lookup(configs, u) EXCEPT !.conditions = cfg.conditions])
       ELSE dict_set(configs, u, cfg)
  ELSE dict_pop(configs, u)

update_config(configs, u, cfg) ==
  IF cfg.is_enabled THEN dict_set(configs, u, cfg) ELSE dict_pop(configs, u)

(***************************************************************************)
(* Template store (database.py) and template resolution                    *)
(***************************************************************************)
AI_PREFIX == <<"A", "I", ":">>
Absent == [id |-> NoneId, content |-> None]

RECURSIVE get_template_from(_, _, _)
get_template_from(tpls, template_id, i) ==
  IF i > Len(tpls) THEN Absent
  ELSE IF tpls[i].id = template_id THEN tpls[i]
  ELSE get_template_from(tpls, template_id, i + 1)

get_template(tpls, template_id) == get_template_from(tpls, template_id, 1)

(* Python truthiness of an Optional[str] *)
truthy(s) == s # None /\ s # <<>>

(***************************************************************************)
(* Response generator (groq_client.py).  completion = what the SDK call     *)
(* chat.completions.create does: it raises (SdkError), it answers without   *)
(* a choice or with a content of None (None), or it answers with a text.    *)
(***************************************************************************)
SdkError == <<"Error">>

RECURSIVE lstrip(_)
lstrip(s) == IF s # <<>> /\ Head(s) = " " THEN lstrip(Tail(s)) ELSE s
RECURSIVE rstrip(_)
rstrip(s) == IF s # <<>> /\ s[Len(s)] = " " THEN rstrip(SubSeq(s, 1, Len(s) - 1)) ELSE s
strip(s) == rstrip(lstrip(s))

(* eval() of the stripped answer (groq_client.py:82): a value or an exception *)
eval_text(s) == IF s = <<>> THEN Raise ELSE Ret(s)

(* groq_client.py:48-87: every Exception of the body becomes None *)
analyze_message_intent(message_content, completion) ==
  IF completion = SdkError \/ completion = None THEN None
  ELSE LET r == eval_text(strip(completion))
       IN IF r.exc THEN None ELSE r.val

(* groq_client.py:13-46: every Exception of the body becomes None *)
generate_dm_response(message_content, context, completion) ==
  IF completion = SdkError \/ completion = None THEN None
  ELSE strip(completion)

(* "{name}" placeholders of a template content and str.format-like filling *)
RECURSIVE fill_placeholders(_, _)
fill_placeholders(content, value) ==
  IF content = <<>> THEN <<>>
  ELSE IF Len(content) >= 3 /\ content[1] = "{" /\ content[3] = "}"
       THEN value \o fill_placeholders(SubSeq(content, 4, Len(content)), value)
       ELSE <<Head(content)>> \o fill_placeholders(Tail(content), value)

(* the calls of the generator one _get_reply_template call makes, in order *)
AnalyzeCall(text) == [op |-> "analyze_message_intent", text |-> text]
GenerateCall(text, context) ==
  [op |-> "generate_dm_response", text |-> text, context |-> context]
Context(intent_analysis, template_guide) ==
  [intent_analysis |-> intent_analysis, template_guide |-> template_guide]
Resolution(exc, val, calls) == [exc |-> exc, val |-> val, calls |-> calls]
AiCalls(template, message, env) ==
  << AnalyzeCall(message.text),
     GenerateCall(message.text,
                  Context(analyze_message_intent(message.text, env.intent),
                          SubSeq(template.content, 4, Len(template.content)))) >>

get_reply_template_filled(tpls, template_id, message, env) ==
  IF env.lookup = "raises" THEN Resolution(FALSE, None, <<>>)
  ELSE LET template == get_template(tpls, template_id)
       IN IF template = Absent THEN Resolution(FALSE, None, <<>>)
          ELSE IF startswith(template.content, AI_PREFIX)
               THEN LET response == generate_dm_response(message.text, None, env.response)
                    IN Resolution(FALSE, IF truthy(response) THEN response ELSE template.content,
                                  AiCalls(template, message, env))
               ELSE Resolution(FALSE,
                               fill_placeholders(template.content,
                                                 IF message.text = None THEN <<>> ELSE message.text),
                               <<>>)

get_reply_template_nofallback(tpls, template_id, message, env) ==
  IF env.lookup = "raises" THEN Resolution(FALSE, None, <<>>)
  ELSE LET template == get_template(tpls, template_id)
       IN IF template = Absent THEN Resolution(FALSE, None, <<>>)
          ELSE IF startswith(template.content, AI_PREFIX)
               THEN Resolution(FALSE, generate_dm_response(message.text, None, env.response),
                               AiCalls(template, message, env))
               ELSE Resolution(FALSE, template.content, <<>>)

get_reply_template_needs_intent(tpls, template_id, message, env) ==
  IF env.lookup = "raises" THEN Resolution(FALSE, None, <<>>)
  ELSE LET template == get_template(tpls, template_id)
       IN IF template = Absent THEN Resolution(FALSE, None, <<>>)
          ELSE IF startswith(template.content, AI_PREFIX)
               THEN LET intent_analysis == analyze_message_intent(message.text, env.intent)
                        response == generate_dm_response(message.text, None, env.response)
                    IN IF intent_analysis = None
                       THEN Resolution(FALSE, template.content, <<AnalyzeCall(message.text)>>)
                       ELSE Resolution(FALSE,
                                       IF truthy(response) THEN response ELSE template.content,
                                       AiCalls(template, message, env))
               ELSE Resolution(FALSE, template.content, <<>>)

(* the try block, auto_reply.py:119-141 *)
get_reply_template_try(tpls, template_id, message, env) ==
  IF env.lookup = "raises" THEN Resolution(TRUE, FALSE, <<>>)
  ELSE LET template == get_template(tpls, template_id)
       IN IF template = Absent THEN Resolution(FALSE, None, <<>>)
          ELSE IF startswith(template.content, AI_PREFIX)
               THEN LET intent_analysis == analyze_message_intent(message.text, env.intent)
                        context == Context(intent_analysis,
                                           SubSeq(template.content, 4, Len(template.content)))
                        response == generate_dm_response(message.text, context, env.response)
                    IN Resolution(FALSE,
                                  IF truthy(response) THEN response ELSE template.content,
                                  <<AnalyzeCall(message.text),
                                    GenerateCall(message.text, context)>>)
               ELSE Resolution(FALSE, template.content, <<>>)

get_reply_template_unguarded(tpls, template_id, message, env) ==
  get_reply_template_try(tpls, template_id, message, env)

_get_reply_template(tpls, template_id, message, env) ==
  LET r == get_reply_template_try(tpls, template_id, message, env)
  IN IF r.exc THEN Resolution(FALSE, None, r.calls) ELSE r

(***************************************************************************)
(* Messaging gateway (instagram_client.py)                                  *)
(***************************************************************************)
RECURSIVE unseen_messages(_, _)
unseen_messages(thread_id, thread_messages) ==
  IF thread_messages = <<>> THEN <<>>
  ELSE LET msg == Head(thread_messages)
           rest == unseen_messages(thread_id, Tail(thread_messages))
       IN IF ~msg.seen_at
          THEN <<[thread_id |-> thread_id, text |-> msg.text]>> \o rest
          ELSE rest

RECURSIVE collect_messages(_)
collect_messages(inbox) ==
  IF inbox = <<>> THEN <<>>
  ELSE unseen_messages(Head(inbox).id, Head(inbox).messages) \o collect_messages(Tail(inbox))

(* platform = what the platform SDK does during this call *)
check_new_messages(sessions, u, platform) ==
  IF u \notin sessions THEN <<>>
  ELSE IF platform.fault # "none" THEN <<>>
  ELSE collect_messages(platform.inbox)

poll_faulted(sessions, u, platform) == u \notin sessions \/ platform.fault # "none"

send_auto_reply(sessions, u, thread_id, text, outcome) ==
  IF u \notin sessions THEN [success |-> FALSE, error |-> "Client not logged in", slept |-> FALSE]
  ELSE IF outcome = "ok" THEN [success |-> TRUE, error |-> "None", slept |-> TRUE]
  ELSE IF outcome = "LoginRequired" THEN [success |-> FALSE, error |-> "Login required", slept |-> FALSE]
  ELSE [success |-> FALSE, error |-> "Failed to send auto-reply", slept |-> FALSE]

(***************************************************************************)
(* AutoReplyManager._process_message: the reply-send call it makes, if any  *)
(***************************************************************************)
NoSend == [called |-> FALSE, username |-> "", thread_id |-> "", text |-> <<>>]
SendCall(u, thread_id, text) ==
  [called |-> TRUE, username |-> u, thread_id |-> thread_id, text |-> text]

process_message_anytext(tpls, u, message, cfg, env) ==
  LET sr == _should_reply(message, cfg)
  IN IF sr.exc \/ ~sr.val THEN NoSend
     ELSE LET template == _get_reply_template(tpls, cfg.template_id, message, env)
          IN IF template.exc \/ template.val = None THEN NoSend
             ELSE SendCall(u, message.thread_id, template.val)

process_message_ungated(tpls, u, message, cfg, env) ==
  LET template == _get_reply_template(tpls, cfg.template_id, message, env)
  IN IF template.exc \/ ~truthy(template.val) THEN NoSend
     ELSE SendCall(u, message.thread_id, template.val)

_process_message(tpls, u, message, cfg, env) ==
  LET sr == _should_reply(message, cfg)
  IN IF sr.exc \/ ~sr.val THEN NoSend
     ELSE LET template == _get_reply_template(tpls, cfg.template_id, message, env)
          IN IF template.exc \/ ~truthy(template.val) THEN NoSend
             ELSE SendCall(u, message.thread_id, template.val)

(***************************************************************************)
(* State                                                                   *)
(***************************************************************************)
VARIABLES
  is_running,        \* AutoReplyManager.is_running
  active_configs,    \* AutoReplyManager.active_configs (insertion-ordered dict)
  last_check_times,  \* AutoReplyManager.last_check_times
  clients,           \* InstagramClient.clients: accounts with a session entry
  templates,         \* the "templates" list of data/templates.json
  clock,             \* datetime.now()
  pc,                \* position of each start() coroutine
  wake,              \* when the asyncio.sleep of each start() coroutine expires
  cur,               \* the coroutine that holds the event-loop thread, 0 if none
  it_idx,            \* items of active_configs the running tick has consumed
  username,          \* locals of the running tick (auto_reply.py:47-61)
  config,
  now,
  messages,          \* messages of the current poll not processed yet
  lastCall,          \* history: the config of the latest update_config per account
  tickPolled,        \* history: accounts polled in the running tick
  tickSkipped,       \* history: accounts skipped by the cooldown in the running tick
  tickFaulted,       \* history: accounts whose poll faulted in the running tick
  lastPollCall,      \* history: time of the latest gateway poll call per account
  lastProc,          \* history: the latest _process_message call and its send call
  replied,           \* history: send calls made so far per (account, thread, text)
  login_attempts,    \* InstagramClient.login_attempts
  logged_in,         \* history: accounts whose latest login succeeded, not logged out since
  lastLogin,         \* history: the latest login() call and what it returned
  active_campaigns,  \* routers/dmer.py active_campaigns: campaign id -> DMCampaignStatus
  created,           \* number of campaign ids handed out so far
  bulk_tasks,        \* background tasks added by send_bulk_dms and not started yet
  bulk,              \* locals of the running process_bulk_dms task (id 0: none runs)
  lastAdd,           \* history: the id and content of the latest add_template call
  fn_message,        \* inputs and result of one evaluation of _should_reply
  fn_config,
  fn_result,
  fn_env,            \* inputs and results of one call of _get_reply_template and of
  fn_reply,          \* _process_message on the same message
  fn_call

managerVars == <<is_running, active_configs, last_check_times>>
loopVars == <<pc, wake, cur, it_idx, username, config, now, messages>>
tickHist == <<tickPolled, tickSkipped, tickFaulted>>
gatewayVars == <<login_attempts, logged_in, lastLogin>>
campaignVars == <<active_campaigns, created, bulk_tasks, bulk>>
sideVars == <<gatewayVars, campaignVars, lastAdd>>
fnVars == <<fn_message, fn_config, fn_result, fn_env, fn_reply, fn_call>>
vars == <<is_running, active_configs, last_check_times, clients, templates, clock,
          pc, wake, cur, it_idx, username, config, now, messages,
          lastCall, tickPolled, tickSkipped, tickFaulted, lastPollCall,
          lastProc, replied, login_attempts, logged_in, lastLogin,
          active_campaigns, created, bulk_tasks, bulk, lastAdd, fn_message, fn_config, fn_result, fn_env, fn_reply, fn_call>>

(***************************************************************************)
(* Inputs.  An action takes what the outside world supplies (the caller's   *)
(* arguments, what the platform and the generator answer, how long a        *)
(* blocking call takes) as parameters; each specification draws them from   *)
(* one of the sets below.                                                   *)
(***************************************************************************)
Loops == {1, 2}
ThreadIds == {"t1", "t2"}
MaxThreadMsgs == 1
LoopTexts == {<<"A", "?">>, <<"a">>, None}

ThreadMessages ==
  UNION {[1..n -> [text : LoopTexts, seen_at : BOOLEAN]] : n \in 0..MaxThreadMsgs}
ShortThreadMessages == {m \in ThreadMessages : Len(m) <= 1}
Inboxes ==
  {<<>>}
  \cup {<<[id |-> t, messages |-> m]>> : t \in ThreadIds, m \in ThreadMessages}
  \cup {<<[id |-> p[1], messages |-> m1], [id |-> p[2], messages |-> m2]>> :
          p \in {q \in ThreadIds \X ThreadIds : q[1] # q[2]},
          m1 \in ShortThreadMessages, m2 \in ShortThreadMessages}
PlatformOutcomes ==
  {[fault |-> f, inbox |-> <<>>] : f \in {"LoginRequired", "Error"}}
  \cup {[fault |-> "none", inbox |-> i] : i \in Inboxes}

GenResponses == {None, <<>>, <<"a">>}
Envs == [lookup : {"ok", "raises"}, intent : {None}, response : GenResponses,
         send : {"ok", "LoginRequired", "Error"}]

StoredTemplates ==
  << [id |-> "T1", content |-> <<"a", "A">>],
     [id |-> "T2", content |-> AI_PREFIX \o <<"a">>],
     [id |-> "T3", content |-> <<>>],
     [id |-> "T4", content |-> <<"{", "a", "}", "?">>] >>

EndsWithQ == [k \in {"ends_with"} |-> <<"?">>]
ContainsA == [k \in {"contains"} |-> <<"A">>]
NoConditions == [k \in {} |-> <<>>]
EnabledConfigs ==
  { AutoReplyConfig(TRUE, "T1", EndsWithQ),
    AutoReplyConfig(TRUE, "T2", NoConditions),
    AutoReplyConfig(TRUE, "T3", ContainsA),
    AutoReplyConfig(TRUE, NoneId, NoConditions) }
Disabled == AutoReplyConfig(FALSE, NoneId, NoConditions)

(* the smaller input sets of the scheduling specification *)
SchedConfigs ==
  { AutoReplyConfig(TRUE, "T1", EndsWithQ),
    AutoReplyConfig(TRUE, "T2", NoConditions),
    Disabled }
SchedOutcomes ==
  { [fault |-> "Error", inbox |-> <<>>],
    [fault |-> "none", inbox |-> <<>>],
    [fault |-> "none",
     inbox |-> <<[id |-> "t1", messages |-> <<[text |-> <<"A", "?">>, seen_at |-> FALSE]>>]>>] }
SchedEnvs ==
  { [lookup |-> "ok", intent |-> None, response |-> None, send |-> "ok"],
    [lookup |-> "ok", intent |-> None, response |-> None, send |-> "Error"] }

NoConfig == AutoReplyConfig(FALSE, NoneId, NoConditions)
NoProc == [active |-> FALSE]
NoMessage == [thread_id |-> "", text |-> None]

After(d) == IF clock + d > MaxTime THEN MaxTime ELSE clock + d

(***************************************************************************)
(* Init: AutoReplyManager.__init__, the gateway sessions left by earlier    *)
(* logins (acctB has one, acctA has none), the template file, no start()    *)
(* task yet.                                                                *)
(***************************************************************************)
NotEvaluated == [done |-> FALSE, exc |-> FALSE, val |-> FALSE]

NoEnv == [lookup |-> "ok", intent |-> None, response |-> None, send |-> "ok"]
NotResolved == [done |-> FALSE, exc |-> FALSE, val |-> None, calls |-> <<>>]

NoLogin == [username |-> "", success |-> FALSE, error |-> "None", before |-> 0,
            created |-> FALSE, contacted |-> FALSE]

NoAdd == [id |-> "", content |-> <<>>]
NoBulk == [id |-> 0, rest |-> <<>>, account |-> ""]

(* the sessions of Init were opened by logins that succeeded *)
InitSide ==
  /\ login_attempts = <<>>
  /\ logged_in = clients
  /\ lastLogin = NoLogin
  /\ active_campaigns = <<>>
  /\ created = 0
  /\ bulk_tasks = <<>>
  /\ bulk = NoBulk
  /\ lastAdd = NoAdd

InitFn ==
  /\ fn_message = NoMessage
  /\ fn_config = NoConfig
  /\ fn_result = NotEvaluated
  /\ fn_env = NoEnv
  /\ fn_reply = NotResolved
  /\ fn_call = NoSend

InitManager ==
  /\ is_running = FALSE
  /\ active_configs = <<>>
  /\ last_check_times = <<>>
  /\ templates = StoredTemplates
  /\ clock = 0
  /\ pc = [l \in Loops |-> "idle"]
  /\ wake = [l \in Loops |-> 0]
  /\ cur = 0
  /\ it_idx = 0
  /\ username = ""
  /\ config = NoConfig
  /\ now = 0
  /\ messages = <<>>
  /\ lastCall = <<>>
  /\ tickPolled = {}
  /\ tickSkipped = {}
  /\ tickFaulted = {}
  /\ lastPollCall = <<>>
  /\ lastProc = NoProc
  /\ replied = <<>>

Init ==
  /\ InitManager
  /\ clients = {"acctB"}
  /\ InitSide
  /\ InitFn

(***************************************************************************)
(* Entry points of AutoReplyManager, called by tasks of the hosting         *)
(* process; a task can run only while no start() coroutine holds the        *)
(* thread.                                                                  *)
(***************************************************************************)
SetKey(f, k, v) == [x \in DOMAIN f \cup {k} |-> IF x = k THEN v ELSE f[x]]

LiveLoops == {l \in Loops : pc[l] # "idle"}

(* start(), up to the first test of the while condition (auto_reply.py:21-22) *)
Start(l) ==
  /\ cur = 0
  /\ pc[l] = "idle"
  /\ \A k \in Loops : pc[k] = "idle" => l <= k
  /\ is_running' = TRUE
  /\ pc' = [pc EXCEPT ![l] = "while"]
  /\ wake' = [wake EXCEPT ![l] = 0]
  /\ cur' = l
  /\ UNCHANGED <<active_configs, last_check_times, clients, templates, sideVars, replied, clock,
                 it_idx, username, config, now, messages, lastCall,
                 tickHist, lastPollCall, lastProc, fnVars>>

Stop_cancel ==
  /\ cur = 0
  /\ is_running' = FALSE
  /\ pc' = [l \in Loops |-> "idle"]
  /\ UNCHANGED <<active_configs, last_check_times, clients, templates, sideVars, replied, clock,
                 wake, cur, it_idx, username, config, now, messages, lastCall,
                 tickHist, lastPollCall, lastProc, fnVars>>

(* stop() (auto_reply.py:31-34) *)
Stop ==
  /\ cur = 0
  /\ is_running' = FALSE
  /\ UNCHANGED <<active_configs, last_check_times, clients, templates, sideVars, replied, clock,
                 loopVars, lastCall, tickHist, lastPollCall, lastProc, fnVars>>

UpdateConfig_preempt(u, cfg) ==
  /\ TRUE
  /\ active_configs' = update_config(active_configs, u, cfg)
  /\ lastCall' = SetKey(lastCall, u, cfg)
  /\ UNCHANGED <<is_running, last_check_times, clients, templates, sideVars, replied, clock,
                 loopVars, tickHist, lastPollCall, lastProc, fnVars>>

(* update_config(username, config) (auto_reply.py:36-43) *)
UpdateConfig(u, cfg) ==
  /\ cur = 0
  /\ active_configs' = update_config(active_configs, u, cfg)
  /\ lastCall' = SetKey(lastCall, u, cfg)
  /\ UNCHANGED <<is_running, last_check_times, clients, templates, sideVars, replied, clock,
                 loopVars, tickHist, lastPollCall, lastProc, fnVars>>

(* time passes while every task is suspended *)
AdvanceClock(d) ==
  /\ cur = 0
  /\ clock < MaxTime
  /\ clock' = After(d)
  /\ UNCHANGED <<managerVars, clients, templates, sideVars, replied, loopVars, lastCall,
                 tickHist, lastPollCall, lastProc, fnVars>>

(***************************************************************************)
(* The start() coroutine                                                   *)
(***************************************************************************)
(* "while self.is_running" (auto_reply.py:23); a true test enters            *)
(* _check_new_messages and creates the items() iterator (auto_reply.py:47)  *)
WhileTest(l) ==
  /\ cur = l
  /\ pc[l] = "while"
  /\ IF is_running
     THEN /\ pc' = [pc EXCEPT ![l] = "for"]
          /\ UNCHANGED <<cur, wake>>
     ELSE /\ pc' = [pc EXCEPT ![l] = "idle"]
          /\ wake' = [wake EXCEPT ![l] = 0]
          /\ cur' = 0
  /\ it_idx' = 0
  /\ tickPolled' = {}
  /\ tickSkipped' = {}
  /\ tickFaulted' = {}
  /\ lastProc' = NoProc
  /\ UNCHANGED <<managerVars, clients, templates, sideVars, replied, clock, username, config, now,
                 messages, lastCall, lastPollCall, fnVars>>

recently_checked_never(times, u, t) == FALSE

recently_checked_global(times, u, t) ==
  \E v \in DOMAIN times : t - times[v] < AUTO_REPLY_CHECK_INTERVAL

(* the cooldown test (auto_reply.py:51-54) *)
recently_checked(times, u, t) ==
  u \in DOMAIN times /\ t - times[u] < AUTO_REPLY_CHECK_INTERVAL

(* next item of the items() iterator, "now = datetime.now()" and the        *)
(* cooldown test (auto_reply.py:47-54); an exhausted iterator ends the tick *)
ForNext(l) ==
  /\ cur = l
  /\ pc[l] = "for"
  /\ IF it_idx >= Len(active_configs)
     THEN /\ pc' = [pc EXCEPT ![l] = "sleepcall"]
          /\ UNCHANGED <<it_idx, username, config, now, tickSkipped, lastProc>>
     ELSE LET item == active_configs[it_idx + 1]
          IN /\ lastProc' = NoProc
             /\ IF recently_checked(last_check_times, item.username, clock)
                THEN /\ it_idx' = it_idx + 1
                     /\ tickSkipped' = tickSkipped \cup {item.username}
                     /\ UNCHANGED <<pc, username, config, now>>
                ELSE /\ pc' = [pc EXCEPT ![l] = "poll"]
                     /\ username' = item.username
                     /\ config' = item.config
                     /\ now' = clock
                     /\ UNCHANGED <<it_idx, tickSkipped>>
  /\ UNCHANGED <<managerVars, clients, templates, sideVars, replied, clock, wake, cur, messages,
                 lastCall, tickPolled, tickFaulted, lastPollCall, fnVars>>

(* what the tick does once the messages of a poll are exhausted *)
NextAccount(l) ==
  /\ pc' = [pc EXCEPT ![l] = "for"]
  /\ it_idx' = it_idx + 1
  /\ username' = ""
  /\ config' = NoConfig
  /\ now' = 0

Poll_abort(l, platform, d) ==
  /\ cur = l
  /\ pc[l] = "poll"
  /\ LET msgs == check_new_messages(clients, username, platform)
       IN /\ clock' = After(d)
          /\ tickPolled' = tickPolled \cup {username}
          /\ lastPollCall' = SetKey(lastPollCall, username, clock)
          /\ IF poll_faulted(clients, username, platform)
             THEN /\ tickFaulted' = tickFaulted \cup {username}
                  /\ pc' = [pc EXCEPT ![l] = "sleepcall"]
                  /\ UNCHANGED <<last_check_times, messages, it_idx, username, config, now>>
             ELSE /\ last_check_times' = SetKey(last_check_times, username, now)
                  /\ tickFaulted' = tickFaulted
                  /\ messages' = msgs
                  /\ IF msgs = <<>>
                     THEN NextAccount(l)
                     ELSE /\ pc' = [pc EXCEPT ![l] = "msgs"]
                          /\ UNCHANGED <<it_idx, username, config, now>>
  /\ UNCHANGED <<is_running, active_configs, clients, templates, sideVars, replied, wake, cur,
                 lastCall, tickSkipped, lastProc, fnVars>>

Poll_success_only(l, platform, d) ==
  /\ cur = l
  /\ pc[l] = "poll"
  /\ LET msgs == check_new_messages(clients, username, platform)
       IN /\ clock' = After(d)
          /\ last_check_times' = IF poll_faulted(clients, username, platform)
                                 THEN last_check_times
                                 ELSE SetKey(last_check_times, username, now)
          /\ tickPolled' = tickPolled \cup {username}
          /\ tickFaulted' = IF poll_faulted(clients, username, platform)
                            THEN tickFaulted \cup {username} ELSE tickFaulted
          /\ lastPollCall' = SetKey(lastPollCall, username, clock)
          /\ messages' = msgs
          /\ IF msgs = <<>>
             THEN NextAccount(l)
             ELSE /\ pc' = [pc EXCEPT ![l] = "msgs"]
                  /\ UNCHANGED <<it_idx, username, config, now>>
  /\ UNCHANGED <<is_running, active_configs, clients, templates, sideVars, replied, wake, cur,
                 lastCall, tickSkipped, lastProc, fnVars>>

(* "messages = await instagram_client.check_new_messages(username)" and     *)
(* "self.last_check_times[username] = now" (auto_reply.py:57-58)            *)
Poll(l, platform, d) ==
  /\ cur = l
  /\ pc[l] = "poll"
  /\ LET msgs == check_new_messages(clients, username, platform)
       IN /\ clock' = After(d)
          /\ last_check_times' = SetKey(last_check_times, username, now)
          /\ tickPolled' = tickPolled \cup {username}
          /\ tickFaulted' = IF poll_faulted(clients, username, platform)
                            THEN tickFaulted \cup {username} ELSE tickFaulted
          /\ lastPollCall' = SetKey(lastPollCall, username, clock)
          /\ messages' = msgs
          /\ IF msgs = <<>>
             THEN NextAccount(l)
             ELSE /\ pc' = [pc EXCEPT ![l] = "msgs"]
                  /\ UNCHANGED <<it_idx, username, config, now>>
  /\ UNCHANGED <<is_running, active_configs, clients, templates, sideVars, replied, wake, cur,
                 lastCall, tickSkipped, lastProc, fnVars>>

MessageKey(u, message) == [username |-> u, thread_id |-> message.thread_id, text |-> message.text]
Replies(key) == IF key \in DOMAIN replied THEN replied[key] ELSE 0

NotSent == [success |-> FALSE, error |-> "None", slept |-> FALSE]

ProcessMessage_reversed(l, env) ==
  /\ cur = l
  /\ pc[l] = "msgs"
  /\ LET message == messages[Len(messages)]
           call == _process_message(templates, username, message, config, env)
           sent == IF call.called
                   THEN send_auto_reply(clients, call.username, call.thread_id, call.text, env.send)
                   ELSE NotSent
           rest == SubSeq(messages, 1, Len(messages) - 1)
       IN /\ clock' = IF sent.slept THEN After(DM_DELAY_SECONDS) ELSE clock
          /\ lastProc' = [active |-> TRUE, polled |-> username, message |-> message,
                          config |-> config, lookup |-> env.lookup,
                          response |-> env.response, call |-> call,
                          sends |-> IF call.called THEN 1 ELSE 0, success |-> sent.success,
                          before |-> Replies(MessageKey(username, message))]
          /\ replied' = IF call.called
                        THEN SetKey(replied, MessageKey(username, message),
                                    Replies(MessageKey(username, message)) + 1)
                        ELSE replied
          /\ tickFaulted' = IF env.lookup = "raises" \/ (call.called /\ ~sent.success)
                            THEN tickFaulted \cup {username} ELSE tickFaulted
          /\ messages' = rest
          /\ IF rest = <<>>
             THEN NextAccount(l)
             ELSE UNCHANGED <<pc, it_idx, username, config, now>>
  /\ UNCHANGED <<managerVars, clients, templates, sideVars, wake, cur, lastCall,
                 tickPolled, tickSkipped, lastPollCall, fnVars>>

ProcessMessage_retry(l, env) ==
  /\ cur = l
  /\ pc[l] = "msgs"
  /\ LET message == Head(messages)
           call == _process_message(templates, username, message, config, env)
           sent == IF call.called
                   THEN send_auto_reply(clients, call.username, call.thread_id, call.text, env.send)
                   ELSE NotSent
           rest == Tail(messages)
       IN /\ clock' = IF sent.slept THEN After(DM_DELAY_SECONDS) ELSE clock
          /\ lastProc' = [active |-> TRUE, polled |-> username, message |-> message,
                          config |-> config, lookup |-> env.lookup,
                          response |-> env.response, call |-> call,
                          sends |-> IF call.called THEN (IF sent.success THEN 1 ELSE 2) ELSE 0, success |-> sent.success,
                          before |-> Replies(MessageKey(username, message))]
          /\ replied' = IF call.called
                        THEN SetKey(replied, MessageKey(username, message),
                                    Replies(MessageKey(username, message)) + 1)
                        ELSE replied
          /\ tickFaulted' = IF env.lookup = "raises" \/ (call.called /\ ~sent.success)
                            THEN tickFaulted \cup {username} ELSE tickFaulted
          /\ messages' = rest
          /\ IF rest = <<>>
             THEN NextAccount(l)
             ELSE UNCHANGED <<pc, it_idx, username, config, now>>
  /\ UNCHANGED <<managerVars, clients, templates, sideVars, wake, cur, lastCall,
                 tickPolled, tickSkipped, lastPollCall, fnVars>>

ProcessMessage_abort(l, env) ==
  /\ cur = l
  /\ pc[l] = "msgs"
  /\ LET message == Head(messages)
           call == _process_message(templates, username, message, config, env)
           sent == IF call.called
                   THEN send_auto_reply(clients, call.username, call.thread_id, call.text, env.send)
                   ELSE NotSent
           rest == IF message.text = None \/ env.lookup = "raises" \/ (call.called /\ ~sent.success)
                   THEN <<>> ELSE Tail(messages)
       IN /\ clock' = IF sent.slept THEN After(DM_DELAY_SECONDS) ELSE clock
          /\ lastProc' = [active |-> TRUE, polled |-> username, message |-> message,
                          config |-> config, lookup |-> env.lookup,
                          response |-> env.response, call |-> call,
                          sends |-> IF call.called THEN 1 ELSE 0, success |-> sent.success,
                          before |-> Replies(MessageKey(username, message))]
          /\ replied' = IF call.called
                        THEN SetKey(replied, MessageKey(username, message),
                                    Replies(MessageKey(username, message)) + 1)
                        ELSE replied
          /\ tickFaulted' = IF env.lookup = "raises" \/ (call.called /\ ~sent.success)
                            THEN tickFaulted \cup {username} ELSE tickFaulted
          /\ messages' = rest
          /\ IF rest = <<>>
             THEN NextAccount(l)
             ELSE UNCHANGED <<pc, it_idx, username, config, now>>
  /\ UNCHANGED <<managerVars, clients, templates, sideVars, wake, cur, lastCall,
                 tickPolled, tickSkipped, lastPollCall, fnVars>>

ProcessMessage_dedup(l, env) ==
  /\ cur = l
  /\ pc[l] = "msgs"
  /\ LET message == Head(messages)
           call == IF Replies(MessageKey(username, message)) > 0 THEN NoSend
                   ELSE _process_message(templates, username, message, config, env)
           sent == IF call.called
                   THEN send_auto_reply(clients, call.username, call.thread_id, call.text, env.send)
                   ELSE NotSent
           rest == Tail(messages)
       IN /\ clock' = IF sent.slept THEN After(DM_DELAY_SECONDS) ELSE clock
          /\ lastProc' = [active |-> TRUE, polled |-> username, message |-> message,
                          config |-> config, lookup |-> env.lookup,
                          response |-> env.response, call |-> call,
                          sends |-> IF call.called THEN 1 ELSE 0, success |-> sent.success,
                          before |-> Replies(MessageKey(username, message))]
          /\ replied' = IF call.called
                        THEN SetKey(replied, MessageKey(username, message),
                                    Replies(MessageKey(username, message)) + 1)
                        ELSE replied
          /\ tickFaulted' = IF env.lookup = "raises" \/ (call.called /\ ~sent.success)
                            THEN tickFaulted \cup {username} ELSE tickFaulted
          /\ messages' = rest
          /\ IF rest = <<>>
             THEN NextAccount(l)
             ELSE UNCHANGED <<pc, it_idx, username, config, now>>
  /\ UNCHANGED <<managerVars, clients, templates, sideVars, wake, cur, lastCall,
                 tickPolled, tickSkipped, lastPollCall, fnVars>>

(* one iteration of "for message in messages" (auto_reply.py:60-61): the    *)
(* whole _process_message call, its send included; sends counts the calls   *)
(* of send_auto_reply it makes                                              *)
ProcessMessage(l, env) ==
  /\ cur = l
  /\ pc[l] = "msgs"
  /\ LET message == Head(messages)
           call == _process_message(templates, username, message, config, env)
           sent == IF call.called
                   THEN send_auto_reply(clients, call.username, call.thread_id, call.text, env.send)
                   ELSE NotSent
           rest == Tail(messages)
       IN /\ clock' = IF sent.slept THEN After(DM_DELAY_SECONDS) ELSE clock
          /\ lastProc' = [active |-> TRUE, polled |-> username, message |-> message,
                          config |-> config, lookup |-> env.lookup,
                          response |-> env.response, call |-> call,
                          sends |-> IF call.called THEN 1 ELSE 0, success |-> sent.success,
                          before |-> Replies(MessageKey(username, message))]
          /\ replied' = IF call.called
                        THEN SetKey(replied, MessageKey(username, message),
                                    Replies(MessageKey(username, message)) + 1)
                        ELSE replied
          /\ tickFaulted' = IF env.lookup = "raises" \/ (call.called /\ ~sent.success)
                            THEN tickFaulted \cup {username} ELSE tickFaulted
          /\ messages' = rest
          /\ IF rest = <<>>
             THEN NextAccount(l)
             ELSE UNCHANGED <<pc, it_idx, username, config, now>>
  /\ UNCHANGED <<managerVars, clients, templates, sideVars, wake, cur, lastCall,
                 tickPolled, tickSkipped, lastPollCall, fnVars>>

Sleep_exit(l) ==
  /\ cur = l
  /\ pc[l] = "sleepcall"
  /\ pc' = [pc EXCEPT ![l] = IF tickFaulted # {} THEN "idle" ELSE "sleep"]
  /\ wake' = [wake EXCEPT ![l] = IF tickFaulted # {} THEN 0 ELSE clock + AUTO_REPLY_CHECK_INTERVAL]
  /\ cur' = 0
  /\ tickPolled' = {}
  /\ tickSkipped' = {}
  /\ tickFaulted' = {}
  /\ UNCHANGED <<managerVars, clients, templates, sideVars, replied, clock, it_idx, username, config,
                 now, messages, lastCall, lastPollCall, lastProc, fnVars>>

(* "await asyncio.sleep(settings.AUTO_REPLY_CHECK_INTERVAL)"                *)
(* (auto_reply.py:26, and :29 after a caught exception): the coroutine      *)
(* gives up the thread.  No Exception reaches the handler of line 27: the   *)
(* callees of the tick catch every Exception themselves and nothing can     *)
(* resize active_configs while the items() iterator is alive.               *)
Sleep(l) ==
  /\ cur = l
  /\ pc[l] = "sleepcall"
  /\ pc' = [pc EXCEPT ![l] = "sleep"]
  /\ wake' = [wake EXCEPT ![l] = clock + AUTO_REPLY_CHECK_INTERVAL]
  /\ cur' = 0
  /\ tickPolled' = {}
  /\ tickSkipped' = {}
  /\ tickFaulted' = {}
  /\ UNCHANGED <<managerVars, clients, templates, sideVars, replied, clock, it_idx, username, config,
                 now, messages, lastCall, lastPollCall, lastProc, fnVars>>

(* the sleep expires and the event loop resumes the coroutine *)
Wake(l) ==
  /\ cur = 0
  /\ pc[l] = "sleep"
  /\ clock >= wake[l]
  /\ pc' = [pc EXCEPT ![l] = "while"]
  /\ cur' = l
  /\ UNCHANGED <<managerVars, clients, templates, sideVars, replied, clock, wake, it_idx, username,
                 config, now, messages, lastCall, tickHist, lastPollCall,
                 lastProc, fnVars>>

Next ==
  \/ \E l \in Loops : Start(l)
  \/ Stop
  \/ \E u \in Accounts, cfg \in SchedConfigs : UpdateConfig(u, cfg)
  \/ \E d \in ClockSteps : AdvanceClock(d)
  \/ \E l \in Loops : WhileTest(l)
  \/ \E l \in Loops : ForNext(l)
  \/ \E l \in Loops, platform \in SchedOutcomes, d \in PollLatencies : Poll(l, platform, d)
  \/ \E l \in Loops, env \in SchedEnvs : ProcessMessage(l, env)
  \/ \E l \in Loops : Sleep(l)
  \/ \E l \in Loops : Wake(l)

Spec == Init /\ [][Next]_vars

(***************************************************************************)
(* SpecReply: the first tick of one start() task over every one- or         *)
(* two-account mapping of enabled configs, with the full sets of platform   *)
(* and generator answers.                                                   *)
(***************************************************************************)
ReplyMappings ==
  {<<[username |-> u, config |-> c]>> : u \in Accounts, c \in EnabledConfigs}
  \cup {<<[username |-> "acctA", config |-> c1], [username |-> "acctB", config |-> c2]>> :
          c1 \in EnabledConfigs, c2 \in EnabledConfigs}

InitReply ==
  /\ is_running = FALSE
  /\ active_configs \in ReplyMappings
  /\ last_check_times = <<>>
  /\ clients = Accounts
  /\ templates = StoredTemplates
  /\ clock = 0
  /\ pc = [l \in Loops |-> "idle"]
  /\ wake = [l \in Loops |-> 0]
  /\ cur = 0
  /\ it_idx = 0
  /\ username = ""
  /\ config = NoConfig
  /\ now = 0
  /\ messages = <<>>
  /\ lastCall = [u \in Keys(active_configs) |-> Lookup(active_configs, u)]
  /\ tickPolled = {}
  /\ tickSkipped = {}
  /\ tickFaulted = {}
  /\ lastPollCall = <<>>
  /\ lastProc = NoProc
  /\ replied = <<>>
  /\ InitSide
  /\ InitFn

NextReply ==
  \/ Start(1)
  \/ WhileTest(1)
  \/ ForNext(1)
  \/ \E platform \in PlatformOutcomes : Poll(1, platform, 0)
  \/ \E env \in Envs : ProcessMessage(1, env)
  \/ Sleep(1)

SpecReply == InitReply /\ [][NextReply]_vars

(***************************************************************************)
(* SpecShould: _should_reply applied once to every message text and every   *)
(* condition mapping within the bounds.                                     *)
(***************************************************************************)
Texts == StringsUpTo(MaxTextLen) \cup {None}
Operands == StringsUpTo(MaxOperandLen)
ConditionMappings == UNION {[ks -> Operands] : ks \in SUBSET ConditionKinds}

InitShould ==
  /\ InitManager
  /\ clients = {"acctB"}
  /\ InitSide
  /\ fn_message \in [thread_id : {"t1"}, text : Texts]
  /\ fn_config \in {AutoReplyConfig(TRUE, "T1", c) : c \in ConditionMappings}
  /\ fn_result = NotEvaluated
  /\ fn_env = NoEnv
  /\ fn_reply = NotResolved
  /\ fn_call = NoSend

Evaluate ==
  /\ ~fn_result.done
  /\ LET r == _should_reply(fn_message, fn_config)
     IN fn_result' = [done |-> TRUE, exc |-> r.exc, val |-> r.val]
  /\ UNCHANGED <<managerVars, clients, templates, sideVars, replied, clock, loopVars, lastCall,
                 tickHist, lastPollCall, lastProc, fn_message, fn_config,
                 fn_env, fn_reply, fn_call>>

NextShould == Evaluate

SpecShould == InitShould /\ [][NextShould]_vars

(***************************************************************************)
(* SpecRepeat: one start() task over one account across several ticks,      *)
(* with a platform that keeps returning the same unread message, once or    *)
(* twice per poll (check_new_messages marks nothing as seen).               *)
(***************************************************************************)
RepeatMessage == [text |-> <<"A", "?">>, seen_at |-> FALSE]
RepeatOutcomes ==
  { [fault |-> "none", inbox |-> <<>>],
    [fault |-> "none", inbox |-> <<[id |-> "t1", messages |-> <<RepeatMessage>>]>>],
    [fault |-> "none",
     inbox |-> <<[id |-> "t1", messages |-> <<RepeatMessage, RepeatMessage>>]>>] }
RepeatMappings ==
  {<<[username |-> u, config |-> c]>> :
     u \in Accounts,
     c \in { AutoReplyConfig(TRUE, "T1", EndsWithQ),
             AutoReplyConfig(TRUE, "T2", NoConditions),
             AutoReplyConfig(TRUE, "T3", ContainsA) }}

InitRepeat ==
  /\ is_running = FALSE
  /\ active_configs \in RepeatMappings
  /\ last_check_times = <<>>
  /\ clients = Accounts
  /\ templates = StoredTemplates
  /\ clock = 0
  /\ pc = [l \in Loops |-> "idle"]
  /\ wake = [l \in Loops |-> 0]
  /\ cur = 0
  /\ it_idx = 0
  /\ username = ""
  /\ config = NoConfig
  /\ now = 0
  /\ messages = <<>>
  /\ lastCall = [u \in Keys(active_configs) |-> Lookup(active_configs, u)]
  /\ tickPolled = {}
  /\ tickSkipped = {}
  /\ tickFaulted = {}
  /\ lastPollCall = <<>>
  /\ lastProc = NoProc
  /\ replied = <<>>
  /\ InitSide
  /\ InitFn

NextRepeat ==
  \/ Start(1)
  \/ \E d \in ClockSteps : AdvanceClock(d)
  \/ WhileTest(1)
  \/ ForNext(1)
  \/ \E platform \in RepeatOutcomes : Poll(1, platform, 0)
  \/ \E env \in SchedEnvs : ProcessMessage(1, env)
  \/ Sleep(1)
  \/ Wake(1)

SpecRepeat == InitRepeat /\ [][NextRepeat]_vars

(***************************************************************************)
(* SpecLogin: the login and logout operations of the messaging gateway,     *)
(* called by the account routes (routers/accounts.py:17,95,120,139,156 and  *)
(* routers/dmer.py:153) in any order with any answer of the platform.       *)
(***************************************************************************)
Attempts(u) == IF u \in DOMAIN login_attempts THEN login_attempts[u] ELSE 0
LockedOut(u) == u \in DOMAIN login_attempts /\ login_attempts[u] >= MAX_RETRIES
LoginOutcomes == {"ok", "login_raises", "client_raises"}
LogoutOutcomes == {"ok", "raises"}
replyVars == <<managerVars, templates, clock, loopVars, lastCall, tickHist,
               lastPollCall, lastProc, replied, fnVars>>

(* login (instagram_client.py:24-40); platform: client.login returns, or it *)
(* raises, or creating the Client raises before it is stored.  The session  *)
(* entry is written by _create_client (line 21) before client.login runs    *)
(* and the except branch does not remove it.                                *)
login(u, platform) ==
  IF LockedOut(u)
  THEN /\ lastLogin' = [username |-> u, success |-> FALSE,
                        error |-> "Maximum login attempts exceeded",
                        before |-> Attempts(u), created |-> FALSE, contacted |-> FALSE]
       /\ UNCHANGED <<clients, login_attempts, logged_in>>
  ELSE IF platform = "ok"
  THEN /\ clients' = clients \cup {u}
       /\ login_attempts' = SetKey(login_attempts, u, 0)
       /\ logged_in' = logged_in \cup {u}
       /\ lastLogin' = [username |-> u, success |-> TRUE, error |-> "None",
                        before |-> Attempts(u), created |-> TRUE, contacted |-> TRUE]
  ELSE /\ clients' = IF platform = "client_raises" THEN clients ELSE clients \cup {u}
       /\ login_attempts' = SetKey(login_attempts, u, Attempts(u) + 1)
       /\ logged_in' = logged_in \ {u}
       /\ lastLogin' = [username |-> u, success |-> FALSE, error |-> "Login failed",
                        before |-> Attempts(u),
                        created |-> platform # "client_raises",
                        contacted |-> platform # "client_raises"]

(* a route handler awaiting login (routers/accounts.py:17,120,156) *)
Login(u, platform) ==
  /\ cur = 0
  /\ bulk.id = 0
  /\ login(u, platform)
  /\ UNCHANGED <<replyVars, campaignVars, lastAdd>>

Logout_forgets(u, platform) ==
  /\ cur = 0
  /\ bulk.id = 0
  /\ u \in clients
  /\ IF platform = "ok"
     THEN /\ clients' = clients \ {u}
          /\ logged_in' = logged_in \ {u}
          /\ login_attempts' = [x \in DOMAIN login_attempts \ {u} |-> login_attempts[x]]
     ELSE UNCHANGED <<clients, logged_in, login_attempts>>
  /\ UNCHANGED <<lastLogin, replyVars, campaignVars, lastAdd>>

(* logout (instagram_client.py:127-135), for an account with a session      *)
(* entry; without one the call does nothing                                 *)
Logout(u, platform) ==
  /\ cur = 0
  /\ bulk.id = 0
  /\ u \in clients
  /\ IF platform = "ok"
     THEN /\ clients' = clients \ {u}
          /\ logged_in' = logged_in \ {u}
     ELSE UNCHANGED <<clients, logged_in>>
  /\ UNCHANGED <<login_attempts, lastLogin, replyVars, campaignVars, lastAdd>>

InitLogin ==
  /\ InitManager
  /\ clients = {}
  /\ InitSide
  /\ InitFn

NextLogin ==
  \/ \E u \in Accounts, platform \in LoginOutcomes : Login(u, platform)
  \/ \E u \in Accounts, platform \in LogoutOutcomes : Logout(u, platform)

SpecLogin == InitLogin /\ [][NextLogin]_vars

(***************************************************************************)
(* SpecCampaign: bulk-DM campaigns (routers/dmer.py).  send_bulk_dms        *)
(* creates the status record and adds process_bulk_dms as a background      *)
(* task; the task has no suspension point (login and send_dm contain no     *)
(* await and time.sleep blocks the thread), so from BulkStart to BulkFinish *)
(* no other handler runs.                                                   *)
(***************************************************************************)
DMCampaignStatus(total) ==
  [total_messages |-> total, sent_messages |-> 0, failed_messages |-> 0,
   status |-> "running"]
Recipients(n) == [i \in 1..n |-> i]
RemoveKey(f, k) == [x \in DOMAIN f \ {k} |-> f[x]]
SendOutcomes == {"ok", "LoginRequired", "Error", "raises"}
coreVars == <<managerVars, templates, loopVars, lastCall, tickHist, lastPollCall,
              lastProc, replied, fnVars, lastAdd>>

(* send_dm (instagram_client.py:42-67) *)
send_dm(sessions, u, outcome) ==
  IF u \notin sessions THEN [success |-> FALSE, error |-> "Client not logged in", slept |-> FALSE]
  ELSE IF outcome = "ok" THEN [success |-> TRUE, error |-> "None", slept |-> TRUE]
  ELSE IF outcome = "LoginRequired" THEN [success |-> FALSE, error |-> "Login required", slept |-> FALSE]
  ELSE [success |-> FALSE, error |-> "Failed to send DM", slept |-> FALSE]

(* send_bulk_dms (dmer.py:18-77) with n parsed recipients and a template    *)
(* that exists; without recipients it answers 400 and creates nothing       *)
SendBulkDms(n, account) ==
  /\ cur = 0
  /\ bulk.id = 0
  /\ created < MaxCampaigns
  /\ IF n = 0
     THEN UNCHANGED <<active_campaigns, created, bulk_tasks>>
     ELSE /\ created' = created + 1
          /\ active_campaigns' = SetKey(active_campaigns, created + 1, DMCampaignStatus(n))
          /\ bulk_tasks' = SetKey(bulk_tasks, created + 1,
                                  [recipients |-> Recipients(n), account |-> account])
  /\ UNCHANGED <<coreVars, clients, clock, gatewayVars, bulk>>

(* delete_campaign (dmer.py:200-218) *)
DeleteCampaign(id) ==
  /\ cur = 0
  /\ bulk.id = 0
  /\ id \in DOMAIN active_campaigns
  /\ active_campaigns' = RemoveKey(active_campaigns, id)
  /\ UNCHANGED <<coreVars, clients, clock, gatewayVars, created, bulk_tasks, bulk>>

SetStatus(id, status) ==
  active_campaigns' = [active_campaigns EXCEPT ![id].status = status]

(* process_bulk_dms up to the for loop (dmer.py:136-155): the campaign      *)
(* lookup, the account lookup (account = "None": no account found) and the  *)
(* login; every raise goes to the handler at 193-199                        *)
BulkStart(id, platform) ==
  /\ cur = 0
  /\ bulk.id = 0
  /\ id \in DOMAIN bulk_tasks
  /\ bulk_tasks' = RemoveKey(bulk_tasks, id)
  /\ LET task == bulk_tasks[id]
     IN IF id \notin DOMAIN active_campaigns
        THEN UNCHANGED <<active_campaigns, bulk, clients, gatewayVars>>
        ELSE IF task.account = NoneId
        THEN /\ SetStatus(id, "failed")
             /\ UNCHANGED <<bulk, clients, gatewayVars>>
        ELSE /\ login(task.account, platform)
             /\ IF lastLogin'.success
                THEN /\ bulk' = [id |-> id, rest |-> task.recipients, account |-> task.account]
                     /\ UNCHANGED active_campaigns
                ELSE /\ SetStatus(id, "failed")
                     /\ UNCHANGED bulk
  /\ UNCHANGED <<coreVars, clock, created>>

BulkRecipient_twice(outcome) ==
  /\ bulk.id # 0
  /\ bulk.rest # <<>>
  /\ LET sent == IF outcome = "raises" THEN NotSent ELSE send_dm(clients, bulk.account, outcome)
         campaign == active_campaigns[bulk.id]
     IN /\ active_campaigns' =
             [active_campaigns EXCEPT ![bulk.id] =
                IF sent.success
                THEN [campaign EXCEPT !.sent_messages = @ + 1]
                ELSE IF outcome = "raises"
                THEN [campaign EXCEPT !.failed_messages = @ + 2]
                ELSE [campaign EXCEPT !.failed_messages = @ + 1]]
        /\ clock' = IF sent.slept THEN After(DM_DELAY_SECONDS) ELSE clock
  /\ bulk' = [bulk EXCEPT !.rest = Tail(bulk.rest)]
  /\ UNCHANGED <<coreVars, clients, gatewayVars, created, bulk_tasks>>

(* one iteration of "for recipient in recipients" (dmer.py:158-187);        *)
(* outcome "raises": an exception inside the inner try, counted by its      *)
(* except branch                                                            *)
BulkRecipient(outcome) ==
  /\ bulk.id # 0
  /\ bulk.rest # <<>>
  /\ LET sent == IF outcome = "raises" THEN NotSent ELSE send_dm(clients, bulk.account, outcome)
         campaign == active_campaigns[bulk.id]
     IN /\ active_campaigns' =
             [active_campaigns EXCEPT ![bulk.id] =
                IF sent.success
                THEN [campaign EXCEPT !.sent_messages = @ + 1]
                ELSE [campaign EXCEPT !.failed_messages = @ + 1]]
        /\ clock' = IF sent.slept THEN After(DM_DELAY_SECONDS) ELSE clock
  /\ bulk' = [bulk EXCEPT !.rest = Tail(bulk.rest)]
  /\ UNCHANGED <<coreVars, clients, gatewayVars, created, bulk_tasks>>

(* after the loop (dmer.py:189-191) *)
BulkFinish ==
  /\ bulk.id # 0
  /\ bulk.rest = <<>>
  /\ SetStatus(bulk.id, "completed")
  /\ bulk' = NoBulk
  /\ UNCHANGED <<coreVars, clients, clock, gatewayVars, created, bulk_tasks>>

InitCampaign ==
  /\ InitManager
  /\ clients = {}
  /\ InitSide
  /\ InitFn

NextCampaign ==
  \/ \E n \in 0..MaxRecipients, account \in {"acctA", NoneId} : SendBulkDms(n, account)
  \/ \E id \in 1..MaxCampaigns : DeleteCampaign(id)
  \/ \E id \in 1..MaxCampaigns, platform \in {"ok", "login_raises"} : BulkStart(id, platform)
  \/ \E outcome \in SendOutcomes : BulkRecipient(outcome)
  \/ BulkFinish

SpecCampaign == InitCampaign /\ [][NextCampaign]_vars

(***************************************************************************)
(* SpecStore: the template list of the store under add_template calls       *)
(* without a caller-supplied id and delete_template calls, starting from    *)
(* an empty file.                                                           *)
(***************************************************************************)
NewContents == {<<"a">>, <<"A">>, <<"a", "?">>}
TemplateId(n) == "template_" \o ToString(n)
TemplateIds == {TemplateId(n) : n \in 1..MaxTemplates}

RECURSIVE without_id(_, _)
without_id(tpls, template_id) ==
  IF tpls = <<>> THEN <<>>
  ELSE IF Head(tpls).id = template_id THEN without_id(Tail(tpls), template_id)
  ELSE <<Head(tpls)>> \o without_id(Tail(tpls), template_id)

(* add_template (database.py:95-106), template.id empty *)
AddTemplate(content) ==
  /\ cur = 0
  /\ Len(templates) < MaxTemplates
  /\ LET id == TemplateId(Len(templates) + 1)
     IN /\ templates' = Append(templates, [id |-> id, content |-> content])
        /\ lastAdd' = [id |-> id, content |-> content]
  /\ UNCHANGED <<managerVars, clients, clock, loopVars, lastCall, tickHist, lastPollCall,
                 lastProc, replied, fnVars, gatewayVars, campaignVars>>

(* delete_template (database.py:136-145) *)
DeleteTemplate(template_id) ==
  /\ cur = 0
  /\ templates' = without_id(templates, template_id)
  /\ lastAdd' = IF template_id = lastAdd.id THEN NoAdd ELSE lastAdd
  /\ UNCHANGED <<managerVars, clients, clock, loopVars, lastCall, tickHist, lastPollCall,
                 lastProc, replied, fnVars, gatewayVars, campaignVars>>

InitStore ==
  /\ is_running = FALSE
  /\ active_configs = <<>>
  /\ last_check_times = <<>>
  /\ clients = {}
  /\ templates = <<>>
  /\ clock = 0
  /\ pc = [l \in Loops |-> "idle"]
  /\ wake = [l \in Loops |-> 0]
  /\ cur = 0
  /\ it_idx = 0
  /\ username = ""
  /\ config = NoConfig
  /\ now = 0
  /\ messages = <<>>
  /\ lastCall = <<>>
  /\ tickPolled = {}
  /\ tickSkipped = {}
  /\ tickFaulted = {}
  /\ lastPollCall = <<>>
  /\ lastProc = NoProc
  /\ replied = <<>>
  /\ InitSide
  /\ InitFn

NextStore ==
  \/ \E content \in NewContents : AddTemplate(content)
  \/ \E template_id \in TemplateIds : DeleteTemplate(template_id)

SpecStore == InitStore /\ [][NextStore]_vars

(***************************************************************************)
(* SpecResolve: _get_reply_template, and _process_message around it,        *)
(* applied once to every template reference, message text and answer of     *)
(* the template store and of the generator SDK within the bounds.           *)
(***************************************************************************)
TemplateRefs == {"T1", "T2", "T3", "T4", "T9", NoneId}
Completions == {SdkError, None, <<>>, <<" ">>, <<"a">>, <<" ", "a", " ">>}
ResolveEnvs == [lookup : {"ok", "raises"}, intent : {SdkError, None, <<"a">>},
                response : Completions, send : {"ok"}]

InitResolve ==
  /\ InitManager
  /\ clients = Accounts
  /\ InitSide
  /\ fn_message \in [thread_id : {"t1"}, text : Texts]
  /\ fn_config \in {AutoReplyConfig(TRUE, tid, NoConditions) : tid \in TemplateRefs}
  /\ fn_result = NotEvaluated
  /\ fn_env \in ResolveEnvs
  /\ fn_reply = NotResolved
  /\ fn_call = NoSend

Resolve ==
  /\ ~fn_reply.done
  /\ LET r == _get_reply_template(templates, fn_config.template_id, fn_message, fn_env)
     IN fn_reply' = [done |-> TRUE, exc |-> r.exc, val |-> r.val, calls |-> r.calls]
  /\ fn_call' = _process_message(templates, "acctA", fn_message, fn_config, fn_env)
  /\ UNCHANGED <<managerVars, clients, templates, sideVars, replied, clock, loopVars, lastCall,
                 tickHist, lastPollCall, lastProc, fn_message, fn_config,
                 fn_result, fn_env>>

NextResolve == Resolve

SpecResolve == InitResolve /\ [][NextResolve]_vars

(***************************************************************************)
(* Properties of the scheduling specification Spec                          *)
(***************************************************************************)
Polling == \E l \in Loops : pc[l] = "poll"
TickOver == \E l \in Loops : pc[l] = "sleepcall"
Enabled(u) == u \in DOMAIN lastCall /\ lastCall[u].is_enabled
DisabledNow(u) == u \in DOMAIN lastCall /\ ~lastCall[u].is_enabled
Entry(d, u) == IF HasKey(d, u) THEN <<Lookup(d, u)>> ELSE <<>>
Updated == {u \in DOMAIN lastCall' : u \notin DOMAIN lastCall \/ lastCall'[u] # lastCall[u]}

(* C1: whenever the gateway poll is about to be issued, the polled account  *)
(* has an entry in active_configs and its latest update_config enabled it:  *)
(* an account disabled after a prior enable is polled by no later tick.     *)
C1_PolledOnlyIfActive ==
  Polling => /\ HasKey(active_configs, username)
             /\ Enabled(username)

(* a tick polls acctB after acctA, polled earlier, has been disabled *)
C1_Witness ==
  /\ Polling
  /\ username = "acctB"
  /\ DisabledNow("acctA")
  /\ "acctA" \in DOMAIN last_check_times

C2_MappingIsLatest ==
  /\ Keys(active_configs) = {u \in DOMAIN lastCall : lastCall[u].is_enabled}
  /\ Len(active_configs) = Cardinality(Keys(active_configs))
  /\ \A u \in Keys(active_configs) : Lookup(active_configs, u) = lastCall[u]

C2_UpdateIsLocal ==
  /\ \A b \in Accounts \ Updated : Entry(active_configs', b) = Entry(active_configs, b)
  /\ \A a \in Updated :
       (~lastCall'[a].is_enabled /\ ~HasKey(active_configs, a)) => active_configs' = active_configs

(* C2: active_configs holds exactly the accounts whose latest update_config *)
(* had is_enabled true, each with the whole config of that call; an update  *)
(* of one account leaves every other entry alone, and disabling an absent   *)
(* account leaves the mapping as it was.                                    *)
C2_UpdateConfigContract == []C2_MappingIsLatest /\ [][C2_UpdateIsLocal]_vars

(* the entry of the account whose message was processed last has since been *)
(* replaced by a config that differs in template and conditions, and the    *)
(* other account has been disabled                                          *)
C2_Witness ==
  /\ lastProc.active
  /\ HasKey(active_configs, lastProc.polled)
  /\ Lookup(active_configs, lastProc.polled).template_id # lastProc.config.template_id
  /\ Lookup(active_configs, lastProc.polled).conditions # lastProc.config.conditions
  /\ \E b \in Accounts \ {lastProc.polled} : DisabledNow(b) /\ ~HasKey(active_configs, b)

(* C4: when a tick is over, every account of the active set was either      *)
(* polled in that tick or skipped by its cooldown, also when the poll or    *)
(* the message processing of another account faulted in that tick.          *)
C4_FaultDoesNotStopTick ==
  TickOver => /\ Keys(active_configs) \subseteq tickPolled \cup tickSkipped
              /\ tickPolled \cap tickSkipped = {}

(* the first account of the mapping faulted and the second was polled *)
C4_Witness ==
  /\ TickOver
  /\ Len(active_configs) = 2
  /\ active_configs[1].username \in tickFaulted
  /\ active_configs[2].username \in tickPolled \ tickFaulted

(* C7: at most one polling loop is live at any time. *)
C7_AtMostOneLoop == Cardinality(LiveLoops) <= 1

(* C8: a gateway poll is issued only when the account has no recorded poll  *)
(* or the recorded poll is at least AUTO_REPLY_CHECK_INTERVAL old, and two  *)
(* gateway polls of one account are at least that far apart.                *)
C8_Cooldown ==
  Polling => /\ username \in DOMAIN last_check_times
                  => now - last_check_times[username] >= AUTO_REPLY_CHECK_INTERVAL
             /\ username \in DOMAIN lastPollCall
                  => clock - lastPollCall[username] >= AUTO_REPLY_CHECK_INTERVAL

(* a second check of an account within 30 time units of its poll was skipped *)
C8_Witness ==
  /\ TickOver
  /\ \E u \in tickSkipped : u \in DOMAIN lastPollCall /\ clock - lastPollCall[u] <= 30

(***************************************************************************)
(* FairSpec: the event loop resumes a coroutine that is ready and time      *)
(* passes.  The clock of the model stops at MaxTime, so a sleep that        *)
(* expires later than MaxTime never ends.                                   *)
(***************************************************************************)
Fairness ==
  /\ WF_vars(\E d \in ClockSteps : AdvanceClock(d))
  /\ \A l \in Loops :
       /\ WF_vars(WhileTest(l))
       /\ WF_vars(ForNext(l))
       /\ WF_vars(\E platform \in SchedOutcomes, d \in PollLatencies : Poll(l, platform, d))
       /\ WF_vars(\E env \in SchedEnvs : ProcessMessage(l, env))
       /\ WF_vars(Sleep(l))
       /\ WF_vars(Wake(l))

FairSpec == Spec /\ Fairness

Exits(l) == pc[l] # "idle" /\ pc'[l] = "idle"
TickBegins(l) == pc[l] = "while" /\ pc'[l] = "for"
WillWake(l) == pc[l] = "sleep" /\ wake[l] <= MaxTime

C5_ExitsOnlyWhenStopped == \A l \in Loops : Exits(l) => ~is_running
C5_TicksRecur == \A l \in Loops : WillWake(l) ~> (pc[l] = "for" \/ ~is_running)
C5_TickEnds == \A l \in Loops : (pc[l] \in {"for", "poll", "msgs", "sleepcall"}) ~> (pc[l] = "sleep")

(* C5: a start() loop returns only when it finds is_running false; a tick   *)
(* always ends in the sleep, and a sleeping loop begins a further tick      *)
(* unless stop() has cleared the flag.                                      *)
C5_LoopSurvives ==
  /\ [][C5_ExitsOnlyWhenStopped]_vars
  /\ C5_TickEnds
  /\ C5_TicksRecur

(* a loop that has slept before is in a further tick, after the poll of     *)
(* the account without a session has failed                                 *)
C5_Witness ==
  \E l \in Loops : pc[l] = "for" /\ wake[l] > 0 /\ is_running /\ "acctA" \in DOMAIN lastPollCall

C6_StopOnlyClearsFlag ==
  (is_running /\ ~is_running') =>
     UNCHANGED <<active_configs, last_check_times, clock, loopVars, lastPollCall, lastProc>>
C6_NoTickWhileStopped == \A l \in Loops : TickBegins(l) => is_running
C6_LoopExits == \A l \in Loops : (WillWake(l) /\ ~is_running) ~> (pc[l] = "idle" \/ is_running)

(* C6: stop() changes nothing but the running flag; a loop begins a tick    *)
(* only when it finds the flag true at the top of the iteration; and once   *)
(* the flag is false, a live loop returns unless start() sets the flag      *)
(* again.                                                                   *)
C6_CooperativeStop ==
  /\ [][C6_StopOnlyClearsFlag]_vars
  /\ [][C6_NoTickWhileStopped]_vars
  /\ C6_LoopExits

(* a loop that slept through stop() is back at the while test and finds     *)
(* the flag false                                                           *)
C6_Witness ==
  \E l \in Loops : cur = l /\ pc[l] = "while" /\ wake[l] > 0 /\ ~is_running

(***************************************************************************)
(* Properties of message processing (SpecReply)                             *)
(***************************************************************************)
ProcEnv ==
  [lookup |-> lastProc.lookup, intent |-> None, response |-> lastProc.response, send |-> "ok"]
ProcGate == _should_reply(lastProc.message, lastProc.config)
ProcText ==
  _get_reply_template(templates, lastProc.config.template_id, lastProc.message, ProcEnv).val
InTick == cur # 0

(* C3: the reply-send operation is called for a message iff _should_reply   *)
(* held under the conditions of the polled account and the resolved text is *)
(* non-empty; the call is made as the polled account, to the thread of that *)
(* message, with exactly the resolved text.  With conditions ends_with "?"  *)
(* and a plain template, a text ending in "?" gets the template content     *)
(* and a text without "?" gets no send call.                                *)
C3_SendIffGatedAndResolved ==
  lastProc.active =>
    /\ InTick => lastProc.config = Lookup(active_configs, lastProc.polled)
    /\ lastProc.call.called <=> (ProcGate.val /\ ProcText # None /\ ProcText # <<>>)
    /\ lastProc.call.called =>
         /\ lastProc.call.username = lastProc.polled
         /\ lastProc.call.thread_id = lastProc.message.thread_id
         /\ lastProc.call.text = ProcText
    /\ (lastProc.config = AutoReplyConfig(TRUE, "T1", EndsWithQ) /\ lastProc.lookup = "ok") =>
         /\ lastProc.message.text = <<"A", "?">> =>
              lastProc.call = SendCall(lastProc.polled, lastProc.message.thread_id, <<"a", "A">>)
         /\ lastProc.message.text = <<"a">> => ~lastProc.call.called

(* two accounts are configured; the second one, with ends_with "?" and the  *)
(* plain template, was polled and its message ending in "?" got the reply   *)
C3_Witness ==
  /\ lastProc.active
  /\ Len(active_configs) = 2
  /\ active_configs[2].username = lastProc.polled
  /\ lastProc.config = AutoReplyConfig(TRUE, "T1", EndsWithQ)
  /\ lastProc.message.text = <<"A", "?">>
  /\ lastProc.call.called
  /\ lastProc.call.text = <<"a", "A">>

(* C10: _should_reply raises nothing to _process_message; for a message     *)
(* whose text is None it returns false, no reply is sent for it, and the    *)
(* for loop goes on with the next message of the poll.                      *)
C10_ShouldReplyNeverRaises ==
  lastProc.active =>
    /\ ~ProcGate.exc
    /\ lastProc.message.text = None =>
         /\ ProcGate.val = FALSE
         /\ ~lastProc.call.called
         /\ messages # <<>> => \E l \in Loops : cur = l /\ pc[l] = "msgs"

(* a message without text was processed under an empty condition mapping    *)
(* and a template that resolves to a text, and another message of the same  *)
(* poll is next                                                             *)
C10_Witness ==
  /\ lastProc.active
  /\ lastProc.message.text = None
  /\ lastProc.config.conditions = NoConditions
  /\ lastProc.config.template_id = "T2"
  /\ messages # <<>>
  /\ \E l \in Loops : pc[l] = "msgs"

(***************************************************************************)
(* Properties of _should_reply (SpecShould)                                 *)
(***************************************************************************)
IsSubstring(x, s) ==
  \E i \in 0..Len(s) : i + Len(x) <= Len(s) /\ \A k \in 1..Len(x) : s[i + k] = x[k]
IsPrefix(x, s) == Len(x) <= Len(s) /\ \A k \in 1..Len(x) : s[k] = x[k]
IsSuffix(x, s) == Len(x) <= Len(s) /\ \A k \in 1..Len(x) : s[Len(s) - Len(x) + k] = x[k]
KindHolds(kind, text, operand) ==
  CASE kind = "contains" -> IsSubstring(operand, text)
    [] kind = "starts_with" -> IsPrefix(operand, text)
    [] kind = "ends_with" -> IsSuffix(operand, text)
AllKindsHold(message, conditions) ==
  \A kind \in DOMAIN conditions \cap RecognizedKinds :
    KindHolds(kind, lower(message.text), lower(conditions[kind]))

(* C9: for every message and every condition mapping, _should_reply is true *)
(* iff every recognized kind of the mapping holds on the lowercased text    *)
(* with the lowercased operand; in particular it is true for the empty      *)
(* mapping.                                                                 *)
C9_ShouldReplyIffAllHold ==
  fn_result.done => (fn_result.val <=> AllKindsHold(fn_message, fn_config.conditions))

(* the same statement for the messages that carry a text *)
C9_OnTextMessages ==
  (fn_result.done /\ fn_message.text # None) =>
    (fn_result.val <=> AllKindsHold(fn_message, fn_config.conditions))

Without(conditions, kind) == [k \in DOMAIN conditions \ {kind} |-> conditions[k]]
OnlyUnrecognized(conditions) ==
  DOMAIN conditions # {} /\ DOMAIN conditions \cap RecognizedKinds = {}
IgnoresUnrecognized ==
  /\ \A kind \in DOMAIN fn_config.conditions \ RecognizedKinds :
       fn_result.val =
         _should_reply(fn_message,
                       [fn_config EXCEPT !.conditions = Without(fn_config.conditions, kind)]).val
  /\ OnlyUnrecognized(fn_config.conditions) => fn_result.val

(* C11: a kind other than contains, starts_with and ends_with does not      *)
(* change the result of _should_reply, for every message and mapping, and   *)
(* a mapping that holds only such kinds yields true.                        *)
C11_UnrecognizedKindsIgnored == fn_result.done => IgnoresUnrecognized

(* the same statement for the messages that carry a text *)
C11_OnTextMessages == (fn_result.done /\ fn_message.text # None) => IgnoresUnrecognized

(***************************************************************************)
(* Properties of _get_reply_template (SpecResolve)                          *)
(***************************************************************************)
Stored(template_id) == {templates[i] : i \in {j \in DOMAIN templates : templates[j].id = template_id}}
Resolved == fn_reply.done
LookupOk == fn_env.lookup = "ok"
Generated == generate_dm_response(fn_message.text, None, fn_env.response)
Gated == fn_message.text # None

(* C12: for a stored template whose content does not start with "AI:" the   *)
(* resolved text is exactly the stored content, whatever the message is;    *)
(* a "{a}" placeholder stays as it is.                                      *)
C12_PlainTemplateVerbatim ==
  (Resolved /\ LookupOk) =>
    \A t \in Stored(fn_config.template_id) :
      ~IsPrefix(AI_PREFIX, t.content) =>
        /\ ~fn_reply.exc
        /\ fn_reply.val = t.content
        /\ fn_config.template_id = "T4" => fn_reply.val = <<"{", "a", "}", "?">>

(* the template with a placeholder was resolved for a message with a text *)
C12_Witness ==
  /\ Resolved /\ LookupOk
  /\ fn_config.template_id = "T4"
  /\ fn_message.text = <<"a", "?">>
  /\ fn_reply.val = <<"{", "a", "}", "?">>

(* C13: for a stored template whose content starts with "AI:" the resolved  *)
(* text is the generator's text when that is a non-empty text, and the raw  *)
(* content, marker included, when the generator returns nothing; the raw    *)
(* content is then what is sent.                                            *)
C13_AiTemplate ==
  (Resolved /\ LookupOk) =>
    \A t \in Stored(fn_config.template_id) :
      IsPrefix(AI_PREFIX, t.content) =>
        /\ truthy(Generated) => fn_reply.val = Generated
        /\ Generated = None =>
             /\ fn_reply.val = t.content
             /\ Gated => fn_call = SendCall("acctA", fn_message.thread_id, t.content)
        /\ fn_env.response = <<"a">> => fn_reply.val = <<"a">>
        /\ fn_env.response = None => fn_reply.val = <<"A", "I", ":", "a">>

(* the generator returned nothing for an "AI:" template and the raw content *)
(* was sent                                                                 *)
C13_Witness ==
  /\ Resolved /\ LookupOk
  /\ fn_config.template_id = "T2"
  /\ fn_env.response = None
  /\ fn_call.called
  /\ fn_call.text = <<"A", "I", ":", "a">>

MissingOrLookupFault == Stored(fn_config.template_id) = {} \/ ~LookupOk
GeneratorFault == fn_env.intent = SdkError \/ fn_env.response = SdkError
NothingResolved == fn_reply.val = None /\ ~fn_call.called

(* C14 as stated: _get_reply_template raises nothing, and it returns        *)
(* nothing, so that no reply is sent, when the template reference is not    *)
(* in the store, when the lookup raises and when the intent analysis or     *)
(* the generation raises.                                                   *)
C14_NothingOnAnyFault ==
  Resolved =>
    /\ ~fn_reply.exc
    /\ (MissingOrLookupFault \/ GeneratorFault) => NothingResolved

(* C14 as amended: _get_reply_template raises nothing; it returns nothing,  *)
(* so that no reply is sent, when the template reference is not in the      *)
(* store and when the lookup raises.  An exception of the intent analysis   *)
(* or of the generation stays inside the generator, which returns None:     *)
(* for a stored "AI:" template the resolved text is then the generated      *)
(* text if there is one and the raw content otherwise.                      *)
C14_NothingOnMissingOrLookupFault ==
  Resolved =>
    /\ ~fn_reply.exc
    /\ MissingOrLookupFault => NothingResolved
    /\ (GeneratorFault /\ ~MissingOrLookupFault) =>
         \A t \in Stored(fn_config.template_id) :
           IsPrefix(AI_PREFIX, t.content) =>
             fn_reply.val = IF truthy(Generated) THEN Generated ELSE t.content

(* the lookup raised for a stored template and a message that passes the    *)
(* conditions: nothing was resolved and nothing was sent                    *)
C14_Witness ==
  /\ Resolved
  /\ ~LookupOk
  /\ fn_config.template_id = "T1"
  /\ Gated
  /\ NothingResolved

(***************************************************************************)
(* Properties of the message loop (SpecReply)                               *)
(***************************************************************************)
Processing == \E l \in Loops : cur = l /\ pc[l] = "msgs"
SamePoll == pc' = pc /\ cur' = cur /\ username' = username /\ config' = config
SendFailed(p) == p.call.called /\ ~p.success
Faulted(p) ==
  \/ p.message.text = None
  \/ _should_reply(p.message, p.config).val /\ p.lookup = "raises"
  \/ SendFailed(p)

(* C15: the messages of a poll are processed one at a time from the front   *)
(* of the list the gateway returned: each step of the message loop          *)
(* processes the first remaining message for the polled account, complete   *)
(* with its send call, and leaves exactly the messages after it.            *)
C15_GatewayOrder ==
  [][Processing =>
       /\ lastProc'.active
       /\ lastProc'.polled = username
       /\ lastProc'.message = Head(messages)
       /\ messages' = Tail(messages)
       /\ lastProc'.call.called => lastProc'.call.thread_id = Head(messages).thread_id]_vars

(* a reply was sent for the first message of a poll and the message of      *)
(* another thread is next                                                   *)
C15_Witness ==
  /\ Processing
  /\ lastProc.active
  /\ lastProc.call.called
  /\ lastProc.message.thread_id = "t1"
  /\ Head(messages).thread_id = "t2"

C18_FaultIsolatedPerMessage ==
  [][Processing =>
       /\ (Faulted(lastProc') /\ Tail(messages) # <<>>) =>
            (messages' = Tail(messages) /\ SamePoll)
       /\ (lastProc.active /\ Faulted(lastProc)) =>
            /\ lastProc'.polled = lastProc.polled
            /\ lastProc'.config = lastProc.config
            /\ lastProc'.call =
                 _process_message(templates, lastProc.polled, Head(messages), lastProc.config,
                                  [lookup |-> lastProc'.lookup, intent |-> None,
                                   response |-> lastProc'.response, send |-> "ok"])]_vars

(* the template lookup raised for a message and the next message of the     *)
(* poll passes the conditions                                               *)
C18_Witness ==
  /\ Processing
  /\ lastProc.active
  /\ lastProc.lookup = "raises"
  /\ Faulted(lastProc)
  /\ _should_reply(Head(messages), config).val

(***************************************************************************)
(* Further properties of the scheduling specification Spec                  *)
(***************************************************************************)
(* C16: at the end of every tick each account whose latest update_config    *)
(* enabled it was polled in that tick unless it had a recorded poll, and    *)
(* the config under which a poll is made and its messages are processed is  *)
(* the one of the latest update_config for that account.                    *)
C16_UpdateSeenByNextTick ==
  /\ TickOver =>
       \A u \in Accounts :
         Enabled(u) => (u \in tickPolled \/ (u \in tickSkipped /\ u \in DOMAIN lastPollCall))
  /\ (Polling \/ Processing) => config = lastCall[username]
  /\ (lastProc.active /\ \E l \in Loops : cur = l /\ pc[l] # "while") =>
       lastProc.config = lastCall[lastProc.polled]

(* a loop that has slept before polls an account that was never polled,     *)
(* in a tick that skips the other account because of its cooldown           *)
C16_Witness ==
  /\ Polling
  /\ \E l \in Loops : cur = l /\ wake[l] > 0
  /\ username \notin DOMAIN lastPollCall
  /\ tickSkipped # {}

(* C19: every gateway poll call, faulted or not, leaves the 'now' of its    *)
(* attempt as the account's last-check time; it is there while the          *)
(* messages of the poll are processed, and an account whose poll faulted is *)
(* polled again only after the interval.                                    *)
C19_CursorSetOnEveryAttempt ==
  /\ \A u \in DOMAIN lastPollCall :
       u \in DOMAIN last_check_times /\ last_check_times[u] = lastPollCall[u]
  /\ Processing => last_check_times[username] = now
  /\ Polling => \A u \in tickFaulted \cap tickPolled : u # username

(* the poll of acctB, the last account of the tick, faulted and its time    *)
(* is recorded                                                              *)
C19_Witness ==
  /\ TickOver
  /\ "acctB" \in tickFaulted
  /\ ~lastProc.active
  /\ last_check_times["acctB"] = clock

(* C20: the accounts with a recorded last-check time are among the active   *)
(* accounts: update_config with a disabled config removes the account's     *)
(* last-check time.                                                         *)
C20_CursorDiscardedOnDisable == DOMAIN last_check_times \subseteq Keys(active_configs)

(* C21: the mapping is confined to the event-loop thread: while a tick      *)
(* iterates active_configs no update_config runs, so the mapping does not   *)
(* change under the iterator and the iterator cannot fault; an update made  *)
(* while the loop is suspended is in the mapping afterwards, and the tick   *)
(* that follows polls or skips every account of the mapping.                *)
TickRunning == \E l \in Loops : cur = l /\ pc[l] \in {"for", "poll", "msgs"}
Guide(content) == [i \in 1..(Len(content) - 3) |-> content[i + 3]]
AiTemplateFound ==
  LookupOk /\ \E t \in Stored(fn_config.template_id) : IsPrefix(AI_PREFIX, t.content)
C22_GeneratorCallOrder ==
  Resolved =>
    IF AiTemplateFound
    THEN \A t \in Stored(fn_config.template_id) :
           /\ fn_reply.calls =
                << [op |-> "analyze_message_intent", text |-> fn_message.text],
                   [op |-> "generate_dm_response", text |-> fn_message.text,
                    context |-> [intent_analysis |->
                                   analyze_message_intent(fn_message.text, fn_env.intent),
                                 template_guide |-> Guide(t.content)]] >>
           /\ fn_config.template_id = "T2" =>
                fn_reply.calls[2].context.template_guide = <<"a">>
           /\ fn_env.intent = SdkError => fn_reply.calls[2].context.intent_analysis = None
    ELSE fn_reply.calls = <<>>

(* the intent analysis failed for an "AI:" template and the generation was  *)
(* still requested                                                          *)
C22_Witness ==
  /\ Resolved
  /\ fn_config.template_id = "T2"
  /\ fn_env.intent = SdkError
  /\ Len(fn_reply.calls) = 2
  /\ fn_reply.calls[2].op = "generate_dm_response"

(* C23: nothing the core keeps makes it skip a message it has replied to    *)
(* before: whenever a message is processed, however many replies the same   *)
(* (account, thread, text) got in earlier polls or earlier in this poll, a  *)
(* reply is sent iff the conditions match and the template resolves, so     *)
(* each occurrence gets its own send call.                                  *)
LastKey == MessageKey(lastProc.polled, lastProc.message)
C23_ReplyPerOccurrence ==
  /\ lastProc.active =>
       /\ lastProc.call.called <=> (ProcGate.val /\ ProcText # None /\ ProcText # <<>>)
       /\ Replies(LastKey) = lastProc.before + (IF lastProc.call.called THEN 1 ELSE 0)
  /\ \A key \in DOMAIN replied : replied[key] >= 1

(* the same message came twice in each of two polls and it is being replied *)
(* to for the fourth time                                                   *)
C23_Witness ==
  /\ lastProc.active
  /\ lastProc.before = 3
  /\ lastProc.call.called
  /\ lastProc.success
  /\ Replies(LastKey) = 4

(* C24: login_attempts of an account changes only in a login call of that  *)
(* account: a failed login adds one, a successful login sets it to 0; once  *)
(* it is MAX_RETRIES (3) every login of the account returns "Maximum login  *)
(* attempts exceeded" without creating a client or calling the platform,    *)
(* and no later step (logout included) lowers it, so the account stays      *)
(* locked out.                                                              *)
LoginCall(u) == lastLogin' # lastLogin /\ lastLogin'.username = u
C24_LoginLockout ==
  /\ [][\A u \in Accounts :
          /\ Attempts(u)' # Attempts(u) => LoginCall(u)
          /\ (u \in DOMAIN login_attempts) => (u \in DOMAIN login_attempts')
          /\ LockedOut(u) => (LockedOut(u)' /\ Attempts(u)' = Attempts(u))
          /\ LoginCall(u) =>
               /\ lastLogin'.before = Attempts(u)
               /\ IF LockedOut(u)
                  THEN /\ ~lastLogin'.success
                       /\ lastLogin'.error = "Maximum login attempts exceeded"
                       /\ ~lastLogin'.created /\ ~lastLogin'.contacted
                       /\ clients' = clients
                  ELSE IF lastLogin'.success
                  THEN u \in DOMAIN login_attempts' /\ login_attempts'[u] = 0
                  ELSE Attempts(u)' = Attempts(u) + 1]_vars
  /\ [](\A u \in Accounts : Attempts(u) <= MAX_RETRIES /\ (LockedOut(u) <=> Attempts(u) = 3))

(* acctA is locked out after three failed logins, was logged out since, and *)
(* its latest login was refused                                             *)
C24_Witness ==
  /\ LockedOut("acctA")
  /\ "acctA" \notin clients
  /\ lastLogin.username = "acctA"
  /\ lastLogin.before = 3
  /\ lastLogin.error = "Maximum login attempts exceeded"

(* C25: only logged-in accounts have an entry in the session map, so for an *)
(* account whose latest login failed or that was logged out the gateway     *)
(* answers without a session: no messages, and "Client not logged in" for a *)
(* send.                                                                    *)
SomeInbox == [fault |-> "none", inbox |-> <<[id |-> "t1", messages |-> <<RepeatMessage>>]>>]
C25_SessionOnlyWhileLoggedIn ==
  /\ clients \subseteq logged_in
  /\ \A u \in Accounts \ logged_in :
       /\ check_new_messages(clients, u, SomeInbox) = <<>>
       /\ send_auto_reply(clients, u, "t1", <<"a">>, "ok").error = "Client not logged in"

(* C26: for every campaign sent_messages + failed_messages never exceeds    *)
(* total_messages; each recipient taken by the loop adds one to exactly one *)
(* of the two counters and nothing else changes them; a completed campaign  *)
(* has counted every recipient; the status leaves "running" only for        *)
(* "completed" or "failed" and the record never changes after that.         *)
Counted(c) == c.sent_messages + c.failed_messages
C26_CampaignAccounting ==
  /\ [](\A id \in DOMAIN active_campaigns :
          LET c == active_campaigns[id]
          IN /\ Counted(c) <= c.total_messages
             /\ c.status \in {"running", "completed", "failed"}
             /\ c.status = "completed" => Counted(c) = c.total_messages
             /\ bulk.id = id => Counted(c) + Len(bulk.rest) = c.total_messages)
  /\ [][\A id \in DOMAIN active_campaigns \cap DOMAIN active_campaigns' :
          LET c == active_campaigns[id]
              d == active_campaigns'[id]
          IN /\ d.total_messages = c.total_messages
             /\ c.status # "running" => d = c
             /\ d.sent_messages >= c.sent_messages
             /\ d.failed_messages >= c.failed_messages
             /\ Counted(d) # Counted(c) =>
                  /\ Counted(d) = Counted(c) + 1
                  /\ d.status = "running"
                  /\ bulk.id = id /\ bulk.rest # <<>> /\ bulk'.rest = Tail(bulk.rest)
             /\ (bulk.id = id /\ bulk'.rest # bulk.rest) => Counted(d) = Counted(c) + 1]_vars

(* a campaign of two recipients completed with one message sent and one     *)
(* failed, after an earlier campaign failed at the login                    *)
C26_Witness ==
  /\ 1 \in DOMAIN active_campaigns /\ active_campaigns[1].status = "failed"
  /\ 2 \in DOMAIN active_campaigns
  /\ active_campaigns[2] = [total_messages |-> 2, sent_messages |-> 1,
                            failed_messages |-> 1, status |-> "completed"]

(* C27: the stored templates have pairwise distinct ids, so looking up the  *)
(* id that the latest add_template returned gives the template added by    *)
(* that call, and the resolver answers with its content.                    *)
C27_DistinctTemplateIds ==
  /\ \A i, j \in 1..Len(templates) : templates[i].id = templates[j].id => i = j
  /\ lastAdd # NoAdd =>
       /\ get_template(templates, lastAdd.id) = lastAdd
       /\ _get_reply_template(templates, lastAdd.id, NoMessage, NoEnv).val = lastAdd.content

====
